---- MODULE Spec2Model ----
(***************************************************************************)
(* Model of pants/init/extension_loader.py: load_backends_and_plugins,     *)
(* load_build_configuration_from_source, load_backend and load_plugins.    *)
(*                                                                         *)
(* The program is sequential.  One step of the model is one iteration of   *)
(* one of the four loops (one load_backend call, or one pass through the   *)
(* body of the for loop of load_plugins), or the exit of one loop.  The    *)
(* order of what happens inside an iteration is kept in the history        *)
(* variable trace, and the register_* calls received by the                *)
(* BuildConfiguration are kept, in order, in build_configuration.          *)
(***************************************************************************)
EXTENDS Integers, Sequences, FiniteSets, TLC

VARIABLES
    backends1,            \* argument backends1 of load_backends_and_plugins
    backends2,            \* argument backends2
    plugins1,             \* argument plugins1
    plugins2,             \* argument plugins2
    modules,              \* what importlib.import_module finds for "<name>.register"
    working_set,          \* the pkg_resources.WorkingSet: key -> distribution
    pc,                   \* the loop being executed, or "returned" / "raised"
    idx,                  \* position of the next element of that loop's list
    loaded,               \* keys of the dict `loaded` of the current load_plugins call
    build_configuration,  \* sequence of the register_* calls made on the configuration
    trace,                \* history: imports, finds, entry point calls, register_* calls
    err                   \* the exception that left load_backends_and_plugins, if any

inputs == <<backends1, backends2, plugins1, plugins2, modules, working_set>>
vars == <<backends1, backends2, plugins1, plugins2, modules, working_set,
          pc, idx, loaded, build_configuration, trace, err>>

(***************************************************************************)
(* Bounds of the model.                                                    *)
(***************************************************************************)
MaxBackends == 2     \* longest caller list backends1 that is enumerated
MaxPlugins == 3      \* longest caller list plugins1 that is enumerated

(***************************************************************************)
(* Names.                                                                  *)
(***************************************************************************)
EntryPoints ==
    {"targets2", "register_goals", "global_subsystems", "build_file_aliases",
     "rules", "build_file_aliases2"}

PluginEntryNames == EntryPoints \cup {"load_after"}

BackendNames ==
    {"pants.build_graph", "pants.core_tasks", "pants.rules.core", "demo", "extra"}

\* Requirement strings a caller or a load_after entry point may give.
RequirementStrings == {"p1", "p2", "p3", "P1", "p2>=1.0", "ghost", "pants.rules.core"}

PluginKeys == {"p1", "p2", "p3", "ghost"}

\* Requirement.parse(s).key: the project name, lower-cased, without the
\* version specifier.
ReqKey(s) ==
    CASE s = "P1" -> "p1"
      [] s = "p2>=1.0" -> "p2"
      [] OTHER -> s

(***************************************************************************)
(* Sequence helpers.                                                       *)
(***************************************************************************)
SeqsUpTo(S, n) == UNION {[1..k -> S] : k \in 0..n}

Range(s) == {s[i] : i \in 1..Len(s)}

IsPrefix(s, t) == Len(s) <= Len(t) /\ \A i \in 1..Len(s) : s[i] = t[i]

\* FrozenOrderedSet(seq): the elements of seq, each once, in order of first
\* occurrence.
FrozenOrderedSet(s) ==
    LET firsts == {i \in 1..Len(s) : \A j \in 1..(i - 1) : s[j] # s[i]}
        RECURSIVE Build(_)
        Build(i) ==
            IF i = 0 THEN <<>>
            ELSE IF i \in firsts THEN Append(Build(i - 1), s[i])
                 ELSE Build(i - 1)
    IN Build(Len(s))

(***************************************************************************)
(* Events, errors and the record threaded through one loop iteration.      *)
(***************************************************************************)
Phases == <<"backends1", "backends2", "plugins1", "plugins2">>

Event(kind, phase, pos, ext, ep) ==
    [kind |-> kind, phase |-> phase, pos |-> pos, ext |-> ext, ep |-> ep]

NoError == [cls |-> "none", msg |-> "", phase |-> "", pos |-> 0, ext |-> "", ep |-> ""]

Error(cls, msg, phase, pos, ext, ep) ==
    [cls |-> cls, msg |-> msg, phase |-> phase, pos |-> pos, ext |-> ext, ep |-> ep]

\* What an entry point returns: a non-empty result is named after the
\* extension and the entry point it comes from, an empty one (None, [], ())
\* is the empty tuple.
ResultOf(ext, ep, behaviour) == IF behaviour = "value" THEN <<ext, ep>> ELSE <<>>

RegisterOp_TargetsAsRules(ep) ==
    CASE ep = "targets2" -> "register_rules"
      [] ep = "global_subsystems" -> "register_optionables"
      [] ep = "build_file_aliases" -> "register_aliases"
      [] ep = "build_file_aliases2" -> "register_aliases"
      [] ep = "rules" -> "register_rules"
      [] OTHER -> "none"

\* The register_* method of BuildConfiguration that receives the result of
\* an entry point; register_goals has none (it registers by side effect).
RegisterOp(ep) ==
    CASE ep = "targets2" -> "register_targets"
      [] ep = "global_subsystems" -> "register_optionables"
      [] ep = "build_file_aliases" -> "register_aliases"
      [] ep = "build_file_aliases2" -> "register_aliases"
      [] ep = "rules" -> "register_rules"
      [] OTHER -> "none"

Registration(op, arg) == [op |-> op, arg |-> arg]

(***************************************************************************)
(* load_build_configuration_from_source: the two lists that are loaded.    *)
(***************************************************************************)
backend_packages1_CallerFirst ==
    FrozenOrderedSet(backends1 \o <<"pants.build_graph", "pants.core_tasks">>)

backend_packages1 ==
    FrozenOrderedSet(<<"pants.build_graph", "pants.core_tasks">> \o backends1)

backend_packages2_NoDedup == <<"pants.rules.core">> \o backends2

backend_packages2 == FrozenOrderedSet(<<"pants.rules.core">> \o backends2)

\* `for plugin in plugins or []`
PluginList_Reversed(plugins) == [i \in 1..Len(plugins) |-> plugins[Len(plugins) + 1 - i]]

PluginList(plugins) == plugins

PhaseList(phase) ==
    CASE phase = "backends1" -> backend_packages1
      [] phase = "backends2" -> backend_packages2
      [] phase = "plugins1" -> PluginList(plugins1)
      [] phase = "plugins2" -> PluginList(plugins2)
      [] OTHER -> <<>>

\* is_v1_backend / is_v1_plugin of the calls made for a phase
IsV1(phase) == phase \in {"backends1", "plugins1"}

NextPhase_PluginsBeforeV2Backends(phase) ==
    CASE phase = "backends1" -> "plugins1"
      [] phase = "plugins1" -> "backends2"
      [] phase = "backends2" -> "plugins2"
      [] OTHER -> "returned"

\* The order of the loops: load_build_configuration_from_source runs the v1
\* then the v2 backends, load_backends_and_plugins then calls load_plugins
\* for plugins1 and for plugins2, and returns.
NextPhase(phase) ==
    CASE phase = "backends1" -> "backends2"
      [] phase = "backends2" -> "plugins1"
      [] phase = "plugins1" -> "plugins2"
      [] OTHER -> "returned"

(***************************************************************************)
(* load_backend.                                                           *)
(***************************************************************************)
BackendEntryPoints_RulesLast(is_v1_backend) ==
    IF is_v1_backend
    THEN <<"targets2", "register_goals", "global_subsystems", "build_file_aliases">>
    ELSE <<"targets2", "build_file_aliases2", "rules">>

BackendEntryPoints_GoalsInV2(is_v1_backend) ==
    IF is_v1_backend
    THEN <<"targets2", "register_goals", "global_subsystems", "build_file_aliases">>
    ELSE <<"targets2", "register_goals", "rules", "build_file_aliases2">>

\* The names load_backend passes to invoke_entrypoint, in order.
BackendEntryPoints(is_v1_backend) ==
    IF is_v1_backend
    THEN <<"targets2", "register_goals", "global_subsystems", "build_file_aliases">>
    ELSE <<"targets2", "rules", "build_file_aliases2">>

invoke_entrypoint_AbsentRaises(backend_package, name) ==
    LET behaviour == modules[backend_package].attrs[name]
    IN [invoked |-> behaviour # "absent",
        raised |-> CASE behaviour \in {"absent", "badargs", "typeerror"} ->
                            "BackendConfigurationError"
                     [] behaviour = "raises" -> "Exception"
                     [] OTHER -> "none",
        result |-> ResultOf(backend_package, name, behaviour)]

\* invoke_entrypoint(name) on the module of backend_package.  An absent
\* attribute is replaced by `lambda: None`; a TypeError of the call becomes a
\* BackendConfigurationError, whether the call could not be made ("badargs")
\* or the body raised it ("typeerror"); any other exception propagates.
invoke_entrypoint(backend_package, name) ==
    LET behaviour == modules[backend_package].attrs[name]
    IN [invoked |-> behaviour # "absent",
        raised |-> CASE behaviour \in {"badargs", "typeerror"} -> "BackendConfigurationError"
                     [] behaviour = "raises" -> "Exception"
                     [] OTHER -> "none",
        result |-> ResultOf(backend_package, name, behaviour)]

RECURSIVE RunBackendEntryPoints(_, _, _, _, _, _)
\* The body of load_backend after the import: entry points eps[i..], each
\* invoked and its truthy result registered before the next is invoked.
RunBackendEntryPoints(st, phase, pos, backend_package, eps, i) ==
    IF i > Len(eps) THEN st
    ELSE
        LET name == eps[i]
            r == invoke_entrypoint(backend_package, name)
            t1 == IF r.invoked
                  THEN Append(st.trace, Event("invoke", phase, pos, backend_package, name))
                  ELSE st.trace
        IN  IF r.raised # "none"
            THEN [st EXCEPT !.trace = t1,
                            !.err = Error(r.raised,
                                          IF r.raised = "BackendConfigurationError"
                                          THEN "must be a zero-arg callable" ELSE "",
                                          phase, pos, backend_package, name)]
            ELSE IF r.result # <<>> /\ RegisterOp(name) # "none"
            THEN RunBackendEntryPoints(
                    [st EXCEPT !.cfg = Append(st.cfg, Registration(RegisterOp(name), r.result)),
                               !.trace = Append(t1, Event("register", phase, pos,
                                                          backend_package, name))],
                    phase, pos, backend_package, eps, i + 1)
            ELSE RunBackendEntryPoints([st EXCEPT !.trace = t1],
                                       phase, pos, backend_package, eps, i + 1)

load_backend_IgnoreImportError(st, phase, pos, backend_package, is_v1_backend) ==
    LET imported == [st EXCEPT !.trace = Append(st.trace, Event("import", phase, pos,
                                                                 backend_package, "register"))]
    IN  IF ~ modules[backend_package].resolves
        THEN imported
        ELSE RunBackendEntryPoints(imported, phase, pos, backend_package,
                                   BackendEntryPoints(is_v1_backend), 1)

load_backend_RollBack(st, phase, pos, backend_package, is_v1_backend) ==
    LET imported == [st EXCEPT !.trace = Append(st.trace, Event("import", phase, pos,
                                                                 backend_package, "register"))]
        done == RunBackendEntryPoints(imported, phase, pos, backend_package,
                                      BackendEntryPoints(is_v1_backend), 1)
    IN  IF ~ modules[backend_package].resolves
        THEN [imported EXCEPT !.err = Error("BackendConfigurationError", "Failed to load",
                                            phase, pos, backend_package, "register")]
        ELSE IF done.err # NoError THEN [done EXCEPT !.cfg = st.cfg]
        ELSE done

load_backend(st, phase, pos, backend_package, is_v1_backend) ==
    LET imported == [st EXCEPT !.trace = Append(st.trace, Event("import", phase, pos,
                                                                 backend_package, "register"))]
    IN  IF ~ modules[backend_package].resolves
        THEN [imported EXCEPT !.err = Error("BackendConfigurationError", "Failed to load",
                                            phase, pos, backend_package, "register")]
        ELSE RunBackendEntryPoints(imported, phase, pos, backend_package,
                                   BackendEntryPoints(is_v1_backend), 1)

(***************************************************************************)
(* load_plugins: one pass through the body of `for plugin in plugins`.     *)
(***************************************************************************)
PluginEntryPoints_TargetsOnce(is_v1_plugin) ==
    IF is_v1_plugin
    THEN <<"targets2", "register_goals", "global_subsystems", "build_file_aliases">>
    ELSE <<"targets2", "rules", "build_file_aliases2">>

\* The keys load_plugins looks up in `entries` after load_after, in order;
\* the v2 branch looks up "targets2" a second time at its end.
PluginEntryPoints(is_v1_plugin) ==
    IF is_v1_plugin
    THEN <<"targets2", "register_goals", "global_subsystems", "build_file_aliases">>
    ELSE <<"targets2", "rules", "build_file_aliases2", "targets2">>

\* working_set.find(req): the distribution installed under the key of the
\* requirement, or None.
find(plugin) == working_set[ReqKey(plugin)]

\* The first dep_name of deps whose key is not in `loaded`, as a one-element
\* sequence; empty when every dep is loaded.
MissingDeps(deps, loadedKeys) ==
    LET missing == {i \in 1..Len(deps) : ReqKey(deps[i]) \notin loadedKeys}
    IN  IF missing = {} THEN <<>>
        ELSE <<deps[CHOOSE i \in missing : \A j \in missing : i <= j]>>

RECURSIVE RunPluginEntryPoints(_, _, _, _, _, _)
\* Entry points eps[i..] of the distribution found for `plugin`: each one
\* present in `entries` is loaded and called, and its result is passed to
\* the register_* method, whatever it is.
RunPluginEntryPoints(st, phase, pos, plugin, eps, i) ==
    IF i > Len(eps) THEN st
    ELSE
        LET name == eps[i]
            behaviour == find(plugin).entries[name]
            t1 == Append(st.trace, Event("invoke", phase, pos, plugin, name))
        IN  IF behaviour = "absent"
            THEN RunPluginEntryPoints(st, phase, pos, plugin, eps, i + 1)
            ELSE IF behaviour = "raises"
            THEN [st EXCEPT !.trace = t1,
                            !.err = Error("Exception", "", phase, pos, plugin, name)]
            ELSE IF RegisterOp(name) # "none"
            THEN RunPluginEntryPoints(
                    [st EXCEPT !.cfg = Append(st.cfg,
                                              Registration(RegisterOp(name),
                                                           ResultOf(ReqKey(plugin), name, behaviour))),
                               !.trace = Append(t1, Event("register", phase, pos, plugin, name))],
                    phase, pos, plugin, eps, i + 1)
            ELSE RunPluginEntryPoints([st EXCEPT !.trace = t1], phase, pos, plugin, eps, i + 1)

load_plugin_CheckAfterEntryPoints(st, phase, pos, plugin, is_v1_plugin) ==
    LET dist == find(plugin)
        found == [st EXCEPT !.trace = Append(st.trace, Event("find", phase, pos, plugin, ""))]
        ran == RunPluginEntryPoints(found, phase, pos, plugin,
                                    PluginEntryPoints(is_v1_plugin), 1)
        missing == MissingDeps(dist.deps, st.loaded)
    IN  IF ~ dist.installed
        THEN [found EXCEPT !.err = Error("PluginNotFound", "Could not find plugin",
                                         phase, pos, plugin, "")]
        ELSE IF ran.err # NoError THEN ran
        ELSE IF dist.entries["load_after"] = "value" /\ missing # <<>>
        THEN [ran EXCEPT !.trace = Append(ran.trace,
                                          Event("invoke", phase, pos, plugin, "load_after")),
                         !.err = Error("PluginLoadOrderError", missing[1],
                                       phase, pos, plugin, "load_after")]
        ELSE [ran EXCEPT !.loaded = ran.loaded \cup {ReqKey(plugin)}]

load_plugin_SkipNotFound(st, phase, pos, plugin, is_v1_plugin) ==
    LET dist == find(plugin)
        found == [st EXCEPT !.trace = Append(st.trace, Event("find", phase, pos, plugin, ""))]
        asked == [found EXCEPT !.trace = Append(found.trace,
                                                Event("invoke", phase, pos, plugin, "load_after"))]
        missing == MissingDeps(dist.deps, st.loaded)
        checked == IF dist.entries["load_after"] = "absent" THEN found ELSE asked
        ran == RunPluginEntryPoints(checked, phase, pos, plugin,
                                    PluginEntryPoints(is_v1_plugin), 1)
    IN  IF ~ dist.installed
        THEN found
        ELSE IF dist.entries["load_after"] = "raises"
        THEN [asked EXCEPT !.err = Error("Exception", "", phase, pos, plugin, "load_after")]
        ELSE IF dist.entries["load_after"] = "value" /\ missing # <<>>
        THEN [asked EXCEPT !.err = Error("PluginLoadOrderError", missing[1],
                                         phase, pos, plugin, "load_after")]
        ELSE IF ran.err # NoError THEN ran
        ELSE [ran EXCEPT !.loaded = ran.loaded \cup {ReqKey(plugin)}]

load_plugin_LoadedBeforeCheck(st, phase, pos, plugin, is_v1_plugin) ==
    LET dist == find(plugin)
        found == [st EXCEPT !.trace = Append(st.trace, Event("find", phase, pos, plugin, ""))]
        asked == [found EXCEPT !.trace = Append(found.trace,
                                                Event("invoke", phase, pos, plugin, "load_after"))]
        missing == MissingDeps(dist.deps, st.loaded \cup {ReqKey(plugin)})
        checked == IF dist.entries["load_after"] = "absent" THEN found ELSE asked
        ran == RunPluginEntryPoints(checked, phase, pos, plugin,
                                    PluginEntryPoints(is_v1_plugin), 1)
    IN  IF ~ dist.installed
        THEN [found EXCEPT !.err = Error("PluginNotFound", "Could not find plugin",
                                         phase, pos, plugin, "")]
        ELSE IF dist.entries["load_after"] = "raises"
        THEN [asked EXCEPT !.err = Error("Exception", "", phase, pos, plugin, "load_after")]
        ELSE IF dist.entries["load_after"] = "value" /\ missing # <<>>
        THEN [asked EXCEPT !.err = Error("PluginLoadOrderError", missing[1],
                                         phase, pos, plugin, "load_after")]
        ELSE IF ran.err # NoError THEN ran
        ELSE [ran EXCEPT !.loaded = ran.loaded \cup {ReqKey(plugin)}]

load_plugin(st, phase, pos, plugin, is_v1_plugin) ==
    LET dist == find(plugin)
        found == [st EXCEPT !.trace = Append(st.trace, Event("find", phase, pos, plugin, ""))]
        asked == [found EXCEPT !.trace = Append(found.trace,
                                                Event("invoke", phase, pos, plugin, "load_after"))]
        missing == MissingDeps(dist.deps, st.loaded)
        checked == IF dist.entries["load_after"] = "absent" THEN found ELSE asked
        ran == RunPluginEntryPoints(checked, phase, pos, plugin,
                                    PluginEntryPoints(is_v1_plugin), 1)
    IN  IF ~ dist.installed
        THEN [found EXCEPT !.err = Error("PluginNotFound", "Could not find plugin",
                                         phase, pos, plugin, "")]
        ELSE IF dist.entries["load_after"] = "raises"
        THEN [asked EXCEPT !.err = Error("Exception", "", phase, pos, plugin, "load_after")]
        ELSE IF dist.entries["load_after"] = "value" /\ missing # <<>>
        THEN [asked EXCEPT !.err = Error("PluginLoadOrderError", missing[1],
                                         phase, pos, plugin, "load_after")]
        ELSE IF ran.err # NoError THEN ran
        ELSE [ran EXCEPT !.loaded = ran.loaded \cup {ReqKey(plugin)}]

(***************************************************************************)
(* The inputs: caller lists, register modules and installed distributions. *)
(***************************************************************************)
AllOf(b) == [e \in EntryPoints |-> b]

Only(ep, b) == [e \in EntryPoints |-> IF e = ep THEN b ELSE "absent"]

Except(ep, b) == [e \in EntryPoints |-> IF e = ep THEN b ELSE "value"]

Module(attrs) == [resolves |-> TRUE, attrs |-> attrs]

\* a name whose "<name>.register" raises ImportError
Unresolvable == [resolves |-> FALSE, attrs |-> AllOf("absent")]

\* register modules tried for the backend "demo"
DemoModules ==
    {Unresolvable, Module(AllOf("absent")), Module(AllOf("value"))}
    \cup {Module(Only(ep, "value")) : ep \in EntryPoints}
    \cup {Module(Except(ep, b)) : ep \in EntryPoints,
                                  b \in {"empty", "badargs", "typeerror", "raises"}}

Dist(attrs, load_after, deps) ==
    [installed |-> TRUE,
     entries |-> [e \in PluginEntryNames |-> IF e = "load_after" THEN load_after ELSE attrs[e]],
     deps |-> deps]

NotInstalled ==
    [installed |-> FALSE, entries |-> [e \in PluginEntryNames |-> "absent"], deps |-> <<>>]

\* distributions tried for the plugin "p2"
P2Dists ==
    {Dist(attrs, "absent", <<>>) :
        attrs \in {AllOf("value"), AllOf("absent"), AllOf("empty"), Except("rules", "raises"),
                   Except("global_subsystems", "raises")}}
    \cup {Dist(attrs, "value", deps) :
            attrs \in {AllOf("value"), Only("targets2", "value")},
            deps \in {<<"p1">>, <<"p3">>, <<"p2">>, <<"P1">>, <<"p1", "p3">>, <<>>}}
    \cup {Dist(AllOf("value"), "value", <<"pants.rules.core">>)}
    \cup {Dist(AllOf("value"), "raises", <<>>)}

\* register modules tried for the built-in backends pants.build_graph,
\* pants.core_tasks and pants.rules.core, which are part of the program and
\* always resolve: each exposes every entry point or none
BuiltinModules == {Module(AllOf("absent")), Module(AllOf("value"))}

\* Runs that exercise the backend loops: every short caller list backends1,
\* a few lists backends2, every register module for "demo".
InitBackendRuns ==
    /\ backends1 \in SeqsUpTo({"pants.core_tasks", "demo", "extra"}, MaxBackends)
    /\ backends2 \in {<<>>, <<"demo">>, <<"extra", "pants.rules.core", "extra">>}
    /\ plugins1 = <<"p1">>
    /\ plugins2 = <<"p1">>
    /\ \E demo \in DemoModules, extra \in {Module(AllOf("value")), Unresolvable} :
          modules = [n \in BackendNames |->
                        CASE n = "demo" -> demo
                          [] n = "extra" -> extra
                          [] OTHER -> Module(AllOf("value"))]
    /\ working_set = [k \in PluginKeys |->
                        IF k = "ghost" THEN NotInstalled ELSE Dist(AllOf("value"), "absent", <<>>)]

\* Runs that exercise the plugin loops: every short caller list plugins1, a
\* few lists plugins2, several distributions for "p1" and "p2".
InitPluginRuns ==
    /\ backends1 = <<>>
    /\ backends2 = <<>>
    /\ plugins1 \in SeqsUpTo({"p1", "p2", "p3"}, MaxPlugins)
    /\ plugins2 \in {<<>>, <<"p2">>, <<"P1", "p2>=1.0", "p1">>, <<"p1", "ghost", "p3">>}
    /\ modules = [n \in BackendNames |-> Module(AllOf("absent"))]
    /\ \E p1 \in {Dist(AllOf("value"), "absent", <<>>), Dist(AllOf("absent"), "absent", <<>>)},
          p2 \in P2Dists :
          working_set = [k \in PluginKeys |->
                            CASE k = "p1" -> p1
                              [] k = "p2" -> p2
                              [] k = "ghost" -> NotInstalled
                              [] OTHER -> Dist(AllOf("value"), "absent", <<>>)]

\* The end-to-end run of one custom backend exposing only targets2, with
\* every combination of register modules for the three built-in backends.
InitEndToEndRuns ==
    /\ backends1 = <<"demo">>
    /\ backends2 = <<>>
    /\ plugins1 = <<>>
    /\ plugins2 = <<>>
    /\ \E builtin \in [{"pants.build_graph", "pants.core_tasks", "pants.rules.core"} ->
                        BuiltinModules] :
          modules = [n \in BackendNames |->
                        CASE n = "demo" -> Module(Only("targets2", "value"))
                          [] n = "extra" -> Module(AllOf("value"))
                          [] OTHER -> builtin[n]]
    /\ working_set = [k \in PluginKeys |-> NotInstalled]

Init ==
    /\ \/ InitBackendRuns
       \/ InitPluginRuns
       \/ InitEndToEndRuns
    /\ pc = "backends1"
    /\ idx = 1
    /\ loaded = {}
    /\ build_configuration = <<>>
    /\ trace = <<>>
    /\ err = NoError

(***************************************************************************)
(* The steps.                                                              *)
(***************************************************************************)
Current == [cfg |-> build_configuration, trace |-> trace, err |-> err, loaded |-> loaded]

\* the state after one loop iteration that produced st
Continue_IgnoreError(st) ==
    /\ build_configuration' = st.cfg
    /\ trace' = st.trace
    /\ err' = st.err
    /\ loaded' = st.loaded
    /\ idx' = idx + 1
    /\ pc' = pc
    /\ UNCHANGED inputs

Continue(st) ==
    /\ build_configuration' = st.cfg
    /\ trace' = st.trace
    /\ err' = st.err
    /\ loaded' = st.loaded
    /\ idx' = idx + 1
    /\ pc' = IF st.err = NoError THEN pc ELSE "raised"
    /\ UNCHANGED inputs

\* one iteration of `for backend_package in backend_packages1/2`
LoadBackendStep ==
    /\ pc \in {"backends1", "backends2"}
    /\ idx <= Len(PhaseList(pc))
    /\ Continue(load_backend(Current, pc, idx, PhaseList(pc)[idx], IsV1(pc)))

\* one iteration of `for plugin in plugins or []`
LoadPluginStep ==
    /\ pc \in {"plugins1", "plugins2"}
    /\ idx <= Len(PhaseList(pc))
    /\ Continue(load_plugin(Current, pc, idx, PhaseList(pc)[idx], IsV1(pc)))

NextPhaseStep_KeepLoaded ==
    /\ pc \in Range(Phases)
    /\ idx > Len(PhaseList(pc))
    /\ pc' = NextPhase(pc)
    /\ idx' = 1
    /\ UNCHANGED <<loaded, build_configuration, trace, err>>
    /\ UNCHANGED inputs

\* a loop is exhausted: the next loop starts (load_plugins starts with
\* `loaded = {}`), or load_backends_and_plugins returns
NextPhaseStep ==
    /\ pc \in Range(Phases)
    /\ idx > Len(PhaseList(pc))
    /\ pc' = NextPhase(pc)
    /\ idx' = 1
    /\ loaded' = {}
    /\ UNCHANGED <<build_configuration, trace, err>>
    /\ UNCHANGED inputs

Next ==
    \/ LoadBackendStep
    \/ LoadPluginStep
    \/ NextPhaseStep

Spec == Init /\ [][Next]_vars

(***************************************************************************)
(* Vocabulary of the properties, read off the history.                     *)
(***************************************************************************)
BackendPhases == {"backends1", "backends2"}

PluginPhases == {"plugins1", "plugins2"}

PhaseOrd(phase) ==
    CASE phase = "backends1" -> 1
      [] phase = "backends2" -> 2
      [] phase = "plugins1" -> 3
      [] phase = "plugins2" -> 4

TraceIdx == 1..Len(trace)

\* indices of the events of one extension: position pos of the list of phase
EventsAt(phase, pos) == {i \in TraceIdx : trace[i].phase = phase /\ trace[i].pos = pos}

\* indices at which entry point ep of that extension was called / its result registered
Calls(kind, phase, pos, ep) ==
    {i \in EventsAt(phase, pos) : trace[i].kind = kind /\ trace[i].ep = ep}

\* indices of the events that begin the loading of an extension
Starts(phase) == {i \in TraceIdx : trace[i].phase = phase /\ trace[i].kind \in {"import", "find"}}

\* the extensions whose loading began in a phase, in the order it began
Started(phase) ==
    LET RECURSIVE Build(_)
        Build(i) ==
            IF i = 0 THEN <<>>
            ELSE IF trace[i].phase = phase /\ trace[i].kind \in {"import", "find"}
                 THEN Append(Build(i - 1), trace[i].ext)
                 ELSE Build(i - 1)
    IN Build(Len(trace))

\* the loop of a phase ended without an error
Finished(phase) ==
    \/ pc = "returned"
    \/ pc \in Range(Phases) /\ PhaseOrd(pc) > PhaseOrd(phase)

\* the extension at position pos of a phase was loaded to its end
Completed(phase, pos) ==
    /\ \E i \in Starts(phase) : trace[i].pos = pos
    /\ ~ (err # NoError /\ err.phase = phase /\ err.pos = pos)

\* the names load_build_configuration_from_source puts in front of the
\* caller's names
Mandatory(phase) ==
    IF phase = "backends1" THEN <<"pants.build_graph", "pants.core_tasks">>
    ELSE <<"pants.rules.core">>

CallerList(phase) ==
    CASE phase = "backends1" -> backends1
      [] phase = "backends2" -> backends2
      [] phase = "plugins1" -> plugins1
      [] phase = "plugins2" -> plugins2

\* the caller's names that are not mandatory, each at its first occurrence
Remaining(phase) ==
    LET names == CallerList(phase)
        RECURSIVE Build(_)
        Build(i) ==
            IF i = 0 THEN <<>>
            ELSE LET before == Build(i - 1)
                 IN  IF names[i] \in Range(Mandatory(phase)) \/ names[i] \in Range(before)
                     THEN before
                     ELSE Append(before, names[i])
    IN Build(Len(names))

\* keys of the plugins loaded to their end before position pos of a phase
LoadedBefore(phase, pos) ==
    {ReqKey(trace[i].ext) : i \in {j \in Starts(phase) : trace[j].pos < pos}}

\* the entry points the specification allows under a generation
LegalSet(phase) ==
    IF phase \in {"backends1", "plugins1"}
    THEN {"targets2", "register_goals", "global_subsystems", "build_file_aliases"}
    ELSE {"targets2", "rules", "build_file_aliases2"}

Invocations == {i \in TraceIdx : trace[i].kind = "invoke"}

\* the list a phase has to work through, as the specification gives it
CallerOrder(phase) ==
    IF phase \in BackendPhases THEN Mandatory(phase) \o Remaining(phase)
    ELSE CallerList(phase)

(***************************************************************************)
(* C1.  The four loops run in the order v1 backends, v2 backends, v1       *)
(* plugins, v2 plugins: events of the history never go back to an earlier  *)
(* phase, and when an event of a phase happens every element of the list   *)
(* of every earlier phase has been started (hence, no error having been    *)
(* raised, loaded to its end).                                             *)
(***************************************************************************)
C1_PhaseOrder ==
    /\ \A i \in 1..(Len(trace) - 1) :
          PhaseOrd(trace[i].phase) <= PhaseOrd(trace[i + 1].phase)
    /\ \A k \in 1..Len(Phases) :
          (\/ \E j \in TraceIdx : PhaseOrd(trace[j].phase) > k
           \/ Finished(Phases[k]))
          => {trace[i].pos : i \in Starts(Phases[k])} = 1..Len(CallerOrder(Phases[k]))
    /\ pc \in Range(Phases) /\ trace # <<>> =>
          PhaseOrd(trace[Len(trace)].phase) <= PhaseOrd(pc)

C1_Witness ==
    /\ pc = "returned"
    /\ \A k \in 1..Len(Phases) : \E i \in Invocations : trace[i].phase = Phases[k]

(***************************************************************************)
(* C2.  In each backend pass the backends are loaded in this order: the    *)
(* mandatory names, then the caller's other names in order of first        *)
(* occurrence; no name is loaded twice.  While the pass runs (or after an  *)
(* error) the loaded sequence is a prefix of that list, and it is the      *)
(* whole list once the pass has ended.                                     *)
(***************************************************************************)
C2_LoadedSequence ==
    \A phase \in BackendPhases :
        LET s == Started(phase)
            expected == CallerOrder(phase)
        IN  /\ IsPrefix(s, expected)
            /\ \A i, j \in 1..Len(s) : i # j => s[i] # s[j]
            /\ Finished(phase) => s = expected

C2_Witness ==
    /\ pc = "returned"
    /\ backends1 = <<"demo", "pants.core_tasks">>
    /\ backends2 = <<"extra", "pants.rules.core", "extra">>

C4_LoadAfterChecked ==
    /\ \A i \in TraceIdx :
          LET e == trace[i]
          IN  (/\ e.phase \in PluginPhases
               /\ find(e.ext).entries["load_after"] = "value"
               /\ \/ e.kind \in {"invoke", "register"} /\ e.ep # "load_after"
                  \/ e.kind = "find" /\ Completed(e.phase, e.pos))
              => \A k \in 1..Len(find(e.ext).deps) :
                    ReqKey(find(e.ext).deps[k]) \in LoadedBefore(e.phase, e.pos)
    /\ err.cls = "PluginLoadOrderError" =>
          /\ \A i \in EventsAt(err.phase, err.pos) :
                \/ trace[i].kind = "find"
                \/ trace[i].kind = "invoke" /\ trace[i].ep = "load_after"
          /\ trace[Len(trace)] = Event("invoke", err.phase, err.pos, err.ext, "load_after")
          /\ ReqKey(err.msg) \notin LoadedBefore(err.phase, err.pos)
          /\ err.msg \in Range(find(err.ext).deps)
    /\ (plugins1 = <<"p1", "p2", "p3">> /\ working_set["p2"].entries["load_after"] = "value") =>
          /\ working_set["p2"].deps = <<"p1">> =>
                ~ (err.cls = "PluginLoadOrderError" /\ err.phase = "plugins1")
          /\ (working_set["p2"].deps = <<"p3">> /\ EventsAt("plugins1", 2) # {}) =>
                /\ err.cls = "PluginLoadOrderError"
                /\ err.phase = "plugins1" /\ err.pos = 2 /\ err.msg = "p3"

C4_Witness ==
    /\ plugins1 = <<"p1", "p2", "p3">>
    /\ working_set["p2"].entries["targets2"] = "value"
    /\ working_set["p2"].deps = <<"p3">>
    /\ err.cls = "PluginLoadOrderError"
    /\ err.ext = "p2"

(***************************************************************************)
(* C5.  As claimed: for a plugin that exposes targets2 and is loaded to    *)
(* its end, targets2 is called exactly once and register_targets receives  *)
(* its result exactly once, in the v1 call and in the v2 call.             *)
(***************************************************************************)
C5_TargetsOncePerPlugin ==
    \A phase \in PluginPhases : \A pos \in 1..Len(CallerList(phase)) :
        (/\ Completed(phase, pos)
         /\ find(CallerList(phase)[pos]).entries["targets2"] # "absent")
        => /\ Cardinality(Calls("invoke", phase, pos, "targets2")) = 1
           /\ Cardinality(Calls("register", phase, pos, "targets2")) = 1

(***************************************************************************)
(* C6.  A backend whose register module does not resolve makes             *)
(* load_backend raise BackendConfigurationError ("Failed to load"): the    *)
(* failed import is the last event of the run, so no entry point of that   *)
(* backend, of a later backend, of the next pass or of a plugin is called  *)
(* and nothing is registered after it; every registration present was      *)
(* made by an extension loaded before it.                                  *)
(***************************************************************************)
C6_ImportFailureAborts ==
    /\ \A i \in TraceIdx :
          (trace[i].kind = "import" /\ ~ modules[trace[i].ext].resolves) =>
             /\ i = Len(trace)
             /\ pc = "raised"
             /\ err = Error("BackendConfigurationError", "Failed to load",
                            trace[i].phase, trace[i].pos, trace[i].ext, "register")
    /\ err.msg = "Failed to load" =>
          /\ ~ modules[err.ext].resolves
          /\ trace[Len(trace)].kind = "import"
          /\ \A r \in Range(build_configuration) :
                r.arg # <<>> => /\ r.arg[1] # err.ext
                                /\ \E i \in TraceIdx : /\ trace[i].kind = "register"
                                                       /\ ReqKey(trace[i].ext) = r.arg[1]

C6_Witness ==
    /\ backends1 = <<"demo", "extra">>
    /\ modules["extra"].resolves
    /\ err.msg = "Failed to load"
    /\ err.ext = "demo"
    /\ err.phase = "backends1"

(***************************************************************************)
(* C7.  As claimed: every entry point called under a generation belongs to *)
(* the legal set of that generation, and targets2 is the only entry point  *)
(* called under both generations.                                          *)
(***************************************************************************)
C7_OnlyLegalEntryPoints ==
    /\ \A i \in Invocations : trace[i].ep \in LegalSet(trace[i].phase)
    /\ \A i, j \in Invocations :
          (trace[i].ep = trace[j].ep /\ LegalSet(trace[i].phase) # LegalSet(trace[j].phase))
          => trace[i].ep = "targets2"

(***************************************************************************)
(* C7 as amended.  Backends and plugins alike: under generation 2 none of  *)
(* register_goals, global_subsystems, build_file_aliases is called, under  *)
(* generation 1 none of rules, build_file_aliases2; of these six entry     *)
(* points targets2 is the only one called under both.  The load_after      *)
(* entry point of a plugin is called under both generations as well.       *)
(***************************************************************************)
C7_LegalOrLoadAfter ==
    /\ \A i \in Invocations :
          \/ trace[i].ep \in LegalSet(trace[i].phase)
          \/ trace[i].ep = "load_after" /\ trace[i].phase \in PluginPhases
    /\ \A i, j \in Invocations :
          (trace[i].ep = trace[j].ep /\ LegalSet(trace[i].phase) # LegalSet(trace[j].phase))
          => trace[i].ep \in {"targets2", "load_after"}

C7_Witness ==
    /\ pc = "returned"
    /\ \E i, j \in Invocations :
          /\ trace[i].phase = "plugins1" /\ trace[i].ep = "load_after"
          /\ trace[j].phase = "plugins2" /\ trace[j].ep = "load_after"
          /\ find(trace[i].ext).entries = [e \in PluginEntryNames |-> "value"]
          /\ find(trace[j].ext).entries = [e \in PluginEntryNames |-> "value"]

(***************************************************************************)
(* The end-to-end run: one custom backend "demo" whose register module     *)
(* exposes only targets2, returning the non-empty list [DemoTarget].       *)
(***************************************************************************)
DemoTarget == <<"demo", "targets2">>

EndToEndInput ==
    /\ backends1 = <<"demo">>
    /\ backends2 = <<>>
    /\ plugins1 = <<>>
    /\ plugins2 = <<>>
    /\ modules["demo"] = Module(Only("targets2", "value"))

\* positions of build_configuration holding a call of op
RegisteredWith(op) == {k \in 1..Len(build_configuration) : build_configuration[k].op = op}

C9_PluginsInCallerOrder ==
    \A phase \in PluginPhases :
        /\ IsPrefix(Started(phase), CallerList(phase))
        /\ \A i \in TraceIdx :
              trace[i].phase = phase =>
                 /\ trace[i].pos \in 1..Len(CallerList(phase))
                 /\ trace[i].ext = CallerList(phase)[trace[i].pos]
                 /\ (i < Len(trace) /\ trace[i + 1].phase = phase) =>
                       \/ trace[i + 1].pos = trace[i].pos /\ trace[i + 1].kind # "find"
                       \/ trace[i + 1].pos = trace[i].pos + 1 /\ trace[i + 1].kind = "find"
        /\ Finished(phase) => Started(phase) = CallerList(phase)

C9_Witness ==
    /\ plugins1 = <<"p3", "p2", "p1">>
    /\ err.cls = "PluginLoadOrderError"
    /\ err.phase = "plugins1"
    /\ err.pos = 2
    /\ err.msg = "p1"
    /\ Started("plugins1") = <<"p3", "p2">>

(***************************************************************************)
(* C10.  An error ends the run: once raised, nothing is called or          *)
(* registered any more.  The configuration is never rolled back: it only   *)
(* grows, it holds exactly the registrations of the history in their       *)
(* order, and after an error it still holds those of the earlier entry     *)
(* points of the extension that failed.                                    *)
(***************************************************************************)
RegisterEvents ==
    LET RECURSIVE Build(_)
        Build(i) ==
            IF i = 0 THEN <<>>
            ELSE IF trace[i].kind = "register" THEN Append(Build(i - 1), trace[i])
                 ELSE Build(i - 1)
    IN Build(Len(trace))

\* the entry points that come before ep in the order of a generation
EarlierEntryPoints(phase, ep) ==
    LET order == IF phase \in {"backends1", "plugins1"}
                 THEN <<"targets2", "register_goals", "global_subsystems",
                        "build_file_aliases">>
                 ELSE <<"targets2", "rules", "build_file_aliases2">>
    IN  {order[k] : k \in {n \in 1..Len(order) : \E m \in (n + 1)..Len(order) : order[m] = ep}}

\* the extension of the error merges the result of its entry point ep
Merges(ep) ==
    /\ RegisterOp(ep) # "none"
    /\ IF err.phase \in BackendPhases
       THEN modules[err.ext].attrs[ep] = "value"
       ELSE find(err.ext).entries[ep] \in {"value", "empty"}

C10_StateAfterError ==
    /\ (err # NoError) <=> (pc = "raised")
    /\ LET regs == RegisterEvents
       IN  /\ Len(regs) = Len(build_configuration)
           /\ \A k \in 1..Len(regs) :
                 /\ build_configuration[k].op = RegisterOp(regs[k].ep)
                 /\ build_configuration[k].arg \in {<<>>, <<ReqKey(regs[k].ext), regs[k].ep>>}
    /\ err # NoError =>
          /\ trace[Len(trace)].phase = err.phase
          /\ trace[Len(trace)].pos = err.pos
          /\ trace[Len(trace)].kind # "register"
          /\ \A ep \in EarlierEntryPoints(err.phase, err.ep) :
                Merges(ep) => Calls("register", err.phase, err.pos, ep) # {}

C10_StepAfterError ==
    /\ IsPrefix(build_configuration, build_configuration')
    /\ IsPrefix(trace, trace')
    /\ pc = "raised" => UNCHANGED vars
    /\ pc' = "raised" => idx' = idx + 1 /\ err' # NoError

C10_NoRollback == [] C10_StateAfterError /\ [][C10_StepAfterError]_vars

C10_Witness ==
    /\ pc = "raised"
    /\ err.ep = "global_subsystems"
    /\ err.phase = "backends1"
    /\ Calls("register", err.phase, err.pos, "targets2") # {}
    /\ Len(build_configuration) > 1

(***************************************************************************)
(* C11.  When working_set.find returns no distribution for the plugin at   *)
(* position k, PluginNotFound is raised there: the lookup is the only      *)
(* event of plugin k and the last event of the run, so no entry point of   *)
(* plugin k or of a later plugin is called; the key of plugin k is not     *)
(* added to `loaded`, which holds the keys of the plugins before k, whose  *)
(* entry points were all called and whose registrations are in the         *)
(* configuration.                                                          *)
(***************************************************************************)
C11_NotFoundAborts ==
    /\ \A i \in TraceIdx :
          (trace[i].kind = "find" /\ ~ find(trace[i].ext).installed) =>
             /\ i = Len(trace)
             /\ pc = "raised"
             /\ err = Error("PluginNotFound", "Could not find plugin",
                            trace[i].phase, trace[i].pos, trace[i].ext, "")
    /\ err.cls = "PluginNotFound" =>
          /\ ~ find(err.ext).installed
          /\ EventsAt(err.phase, err.pos) = {Len(trace)}
          /\ \A i \in TraceIdx : trace[i].phase = err.phase => trace[i].pos <= err.pos
          /\ loaded = LoadedBefore(err.phase, err.pos)
          /\ ReqKey(err.ext) \notin loaded
          /\ \A q \in 1..(err.pos - 1) :
                LET before == find(CallerList(err.phase)[q])
                IN  \A ep \in LegalSet(err.phase) :
                       before.entries[ep] # "absent" =>
                          /\ Calls("invoke", err.phase, q, ep) # {}
                          /\ RegisterOp(ep) # "none" =>
                                Calls("register", err.phase, q, ep) # {}

C11_Witness ==
    /\ plugins2 = <<"p1", "ghost", "p3">>
    /\ working_set["p1"].entries["targets2"] = "value"
    /\ err.cls = "PluginNotFound"
    /\ err.phase = "plugins2"
    /\ err.pos = 2
    /\ Len(build_configuration) > 0

(***************************************************************************)
(* C12.  A register module or a distribution that exposes none of the      *)
(* entry point names is loaded without error: its only event is the import *)
(* or the lookup, nothing is called and nothing is registered for it.  A   *)
(* plugin of this kind is in `loaded` for the rest of its load_plugins     *)
(* call, so no later plugin of the call fails its load_after check for it. *)
(***************************************************************************)
ExposesNothing(phase, ext) ==
    IF phase \in BackendPhases
    THEN modules[ext].resolves /\ \A ep \in EntryPoints : modules[ext].attrs[ep] = "absent"
    ELSE find(ext).installed /\ \A ep \in PluginEntryNames : find(ext).entries[ep] = "absent"

C12_EmptyExtensionLoads ==
    \A i \in TraceIdx :
        LET e == trace[i]
        IN  (e.kind \in {"import", "find"} /\ ExposesNothing(e.phase, e.ext)) =>
               /\ EventsAt(e.phase, e.pos) = {i}
               /\ ~ (err # NoError /\ err.phase = e.phase /\ err.pos = e.pos)
               /\ e.phase \in PluginPhases =>
                     /\ (pc = e.phase \/ (pc = "raised" /\ err.phase = e.phase))
                           => ReqKey(e.ext) \in loaded
                     /\ (err.cls = "PluginLoadOrderError" /\ err.phase = e.phase)
                           => ReqKey(err.msg) # ReqKey(e.ext)

C12_Witness ==
    /\ pc = "returned"
    /\ plugins1 = <<"p1", "p2">>
    /\ working_set["p1"].entries = [e \in PluginEntryNames |-> "absent"]
    /\ working_set["p2"].entries["load_after"] = "value"
    /\ working_set["p2"].deps = <<"p1">>
    /\ modules["pants.build_graph"].attrs = [e \in EntryPoints |-> "absent"]

(***************************************************************************)
(* C13.  As claimed: within one load_plugins call and within one pass of   *)
(* backends, no entry point of an extension is called more than once, also *)
(* when the extension is named more than once in the caller's list.        *)
(***************************************************************************)
C13_AtMostOncePerCall ==
    \A i, j \in Invocations :
        (/\ trace[i].phase = trace[j].phase
         /\ ReqKey(trace[i].ext) = ReqKey(trace[j].ext)
         /\ trace[i].ep = trace[j].ep)
        => i = j

(***************************************************************************)
(* C14.  As claimed: in the plugin loader as in the backend loader, the    *)
(* register_* method of an entry point is called if and only if the entry  *)
(* point is present and its result is not empty.                           *)
(***************************************************************************)
BehaviourOf(phase, ext, ep) ==
    IF phase \in BackendPhases THEN modules[ext].attrs[ep] ELSE find(ext).entries[ep]

C14_RegisterIffNonEmpty ==
    \A phase \in Range(Phases) : \A pos \in 1..Len(CallerOrder(phase)) :
        Completed(phase, pos) =>
            \A ep \in LegalSet(phase) :
                RegisterOp(ep) # "none" =>
                    (Calls("register", phase, pos, ep) # {}
                        <=> BehaviourOf(phase, CallerOrder(phase)[pos], ep) = "value")

(***************************************************************************)
(* C15.  `loaded` belongs to one load_plugins call: it is empty when the   *)
(* call starts and only ever holds keys of plugins of the list of that     *)
(* call.  A plugin whose load_after names something that was not loaded    *)
(* earlier in the same call raises PluginLoadOrderError, also when the     *)
(* name is a plugin loaded by the v1 call or a backend that was loaded.    *)
(***************************************************************************)
C15_LoadedSetPerCall ==
    /\ pc \in PluginPhases =>
          /\ idx = 1 => loaded = {}
          /\ loaded \subseteq {ReqKey(CallerList(pc)[q]) : q \in 1..(idx - 1)}
    /\ \A i \in TraceIdx :
          LET e == trace[i]
          IN  (/\ e.kind = "find"
               /\ find(e.ext).entries["load_after"] = "value"
               /\ \E k \in 1..Len(find(e.ext).deps) :
                     ReqKey(find(e.ext).deps[k]) \notin LoadedBefore(e.phase, e.pos))
              => /\ err.cls = "PluginLoadOrderError"
                 /\ err.phase = e.phase
                 /\ err.pos = e.pos

C15_Witness ==
    /\ err.cls = "PluginLoadOrderError"
    /\ err.phase = "plugins2"
    /\ Started("plugins1") = plugins1
    /\ ReqKey(err.msg) \in {ReqKey(plugins1[q]) : q \in 1..Len(plugins1)}

\* keys of the plugins of a phase whose loading began and did not fail
CompletedKeys(phase) ==
    {ReqKey(trace[i].ext) : i \in {j \in Starts(phase) : Completed(phase, trace[j].pos)}}

(***************************************************************************)
(* C16.  During a load_plugins call `loaded` is exactly the set of keys of *)
(* the plugins that were resolved, passed the load_after check and had     *)
(* all their entry points invoked without error.  The key is added last:   *)
(* a plugin whose load_after names its own key raises                      *)
(* PluginLoadOrderError, and the plugin at which the call failed is not    *)
(* in `loaded`.                                                            *)
(***************************************************************************)
C16_LoadedIsCompleted ==
    /\ pc \in PluginPhases => loaded = CompletedKeys(pc)
    /\ (pc = "raised" /\ err.phase \in PluginPhases) =>
          /\ loaded = CompletedKeys(err.phase)
          /\ ReqKey(err.ext) \notin loaded
    /\ \A i \in TraceIdx :
          LET e == trace[i]
          IN  (/\ e.kind = "find"
               /\ find(e.ext).entries["load_after"] = "value"
               /\ \E k \in 1..Len(find(e.ext).deps) :
                     ReqKey(find(e.ext).deps[k]) = ReqKey(e.ext))
              => err = Error("PluginLoadOrderError", err.msg, e.phase, e.pos, e.ext,
                             "load_after")

C16_Witness ==
    /\ err.cls = "PluginLoadOrderError"
    /\ err.phase \in PluginPhases
    /\ ReqKey(err.msg) = ReqKey(err.ext)
    /\ loaded # {}

\* the error invoke_entrypoint raises for an entry point that is not a
\* zero-arg callable
EntryPointError(phase, pos, ext, ep) ==
    Error("BackendConfigurationError", "must be a zero-arg callable", phase, pos, ext, ep)

(***************************************************************************)
(* C17.  load_backend raises the "must be a zero-arg callable"             *)
(* BackendConfigurationError exactly when an invoked legal entry point     *)
(* cannot be called with zero arguments: it is raised at that entry point, *)
(* after the results of the earlier entry points were registered and       *)
(* before any later one is invoked, and an entry point that can be called  *)
(* with zero arguments never yields it.                                    *)
(***************************************************************************)
C17_OnlyNotZeroArg ==
    /\ \A i \in Invocations :
          LET e == trace[i]
          IN  e.phase \in BackendPhases =>
                 /\ modules[e.ext].attrs[e.ep] = "badargs" =>
                       /\ err = EntryPointError(e.phase, e.pos, e.ext, e.ep)
                       /\ i = Len(trace)
                       /\ \A ep \in EarlierEntryPoints(e.phase, e.ep) :
                             /\ modules[e.ext].attrs[ep] # "absent" =>
                                   Calls("invoke", e.phase, e.pos, ep) # {}
                             /\ (modules[e.ext].attrs[ep] = "value" /\ RegisterOp(ep) # "none")
                                   => Calls("register", e.phase, e.pos, ep) # {}
                 /\ modules[e.ext].attrs[e.ep] # "badargs" =>
                       err # EntryPointError(e.phase, e.pos, e.ext, e.ep)
    /\ err.msg = "must be a zero-arg callable" =>
          /\ err.phase \in BackendPhases
          /\ err.ep \in LegalSet(err.phase)
          /\ modules[err.ext].attrs[err.ep] = "badargs"

Terminal == {"returned", "raised"}

\* what holds of the two outcomes of load_backends_and_plugins
C18_Outcome ==
    /\ pc = "returned" =>
          /\ err = NoError
          /\ \A phase \in Range(Phases) : Started(phase) = CallerOrder(phase)
    /\ pc = "raised" => err # NoError
    /\ pc \notin Terminal =>
          /\ err = NoError
          /\ idx \in 1..(Len(PhaseList(pc)) + 1)

(***************************************************************************)
(* C18.  Every run of load_backends_and_plugins ends in one of two         *)
(* outcomes: it returns the build configuration after every deduplicated   *)
(* backend of both generations and every plugin of both lists was loaded,  *)
(* or it raises one error.  Until then the current list has a next entry  *)
(* to load or the next list can be started, and the position in the finite *)
(* lists only moves forward: the loading of an extension starts at the     *)
(* position after the previous one, so none is started twice, and nothing  *)
(* can happen after an outcome.                                            *)
(***************************************************************************)
C18_Terminates ==
    /\ C18_Outcome
    /\ pc \in Terminal => ~ ENABLED Next
    /\ pc \notin Terminal =>
          /\ pc \in Range(Phases)
          /\ idx <= Len(PhaseList(pc)) \/ ENABLED NextPhaseStep
    /\ \A i \in 1..(Len(trace) - 1) :
          \/ PhaseOrd(trace[i].phase) < PhaseOrd(trace[i + 1].phase)
          \/ /\ trace[i].phase = trace[i + 1].phase
             /\ trace[i].pos <= trace[i + 1].pos
             /\ trace[i + 1].kind \in {"import", "find"} => trace[i + 1].pos = trace[i].pos + 1

C18_Witness ==
    /\ pc = "returned"
    /\ Len(backends1) = MaxBackends
    /\ \E i, j \in 1..Len(backends2) : i # j /\ backends2[i] = backends2[j]
    /\ Len(Started("backends2")) = 2
    /\ Len(Started("plugins1")) = 1

\* the place of an event in the course of one load_backend call: the import,
\* then per entry point of the generation its invocation and its registration
StepRank(e) ==
    LET order == IF e.phase = "backends1"
                 THEN <<"targets2", "register_goals", "global_subsystems",
                        "build_file_aliases">>
                 ELSE <<"targets2", "rules", "build_file_aliases2">>
        place == IF e.ep = order[1] THEN 1
                 ELSE IF e.ep = order[2] THEN 2
                 ELSE IF e.ep = order[3] THEN 3
                 ELSE IF Len(order) = 4 /\ e.ep = order[4] THEN 4
                 ELSE 0
    IN  CASE e.kind = "import" -> 0
          [] e.kind = "invoke" -> 2 * place - 1
          [] OTHER -> 2 * place

(***************************************************************************)
(* C19.  Within one load_backend call the entry points are invoked in a    *)
(* fixed order, targets2, register_goals, global_subsystems,               *)
(* build_file_aliases under v1 and targets2, rules, build_file_aliases2    *)
(* under v2, and the result of an entry point is registered right after    *)
(* its invocation, before the next entry point is invoked: register_targets*)
(* for targets2, register_optionables for global_subsystems,               *)
(* register_rules for rules, register_aliases for both alias entry points. *)
(* The registrations of the backends therefore appear in the build         *)
(* configuration in the order in which the backends were loaded.           *)
(***************************************************************************)
C19_FixedEntryPointOrder ==
    /\ \A i \in TraceIdx :
          LET e == trace[i]
          IN  e.phase \in BackendPhases =>
                 /\ e.kind # "import" => StepRank(e) > 0
                 /\ (i > 1 /\ e.kind # "import") =>
                       /\ trace[i - 1].phase = e.phase
                       /\ trace[i - 1].pos = e.pos
                       /\ StepRank(trace[i - 1]) < StepRank(e)
                 /\ e.kind = "register" =>
                       /\ i > 1
                       /\ trace[i - 1].kind = "invoke"
                       /\ trace[i - 1].ep = e.ep
                 /\ (/\ e.kind = "invoke"
                     /\ modules[e.ext].attrs[e.ep] = "value"
                     /\ RegisterOp(e.ep) # "none") =>
                       /\ i < Len(trace)
                       /\ trace[i + 1] = Event("register", e.phase, e.pos, e.ext, e.ep)
    /\ LET regs == RegisterEvents
       IN  /\ Len(regs) = Len(build_configuration)
           /\ \A k \in 1..Len(regs) :
                 regs[k].phase \in BackendPhases =>
                    build_configuration[k] =
                       Registration(RegisterOp(regs[k].ep), <<regs[k].ext, regs[k].ep>>)

C19_Witness ==
    /\ pc = "returned"
    /\ backends1 = <<"demo">>
    /\ backends2 = <<"demo">>
    /\ modules["demo"].attrs = AllOf("value")
    /\ modules["pants.rules.core"].attrs = AllOf("value")

====
